---- MODULE Spec2Model ----
(***************************************************************************)
(* The gRPC DogService example: server.js (one server process) and         *)
(* client.js (one GetDog call per run), with the proto of readme.md.       *)
(*                                                                         *)
(* The server script is modelled statement by statement (pc).  Each client *)
(* slot runs client.js up to MaxCalls times; every run issues one call.    *)
(* What the scripts hand to the RPC library (the completion callback given *)
(* to the GetDog handler, the bind result, the connection) is environment: *)
(* its outcomes are chosen nondeterministically.                           *)
(***************************************************************************)
EXTENDS Integers, Sequences, FiniteSets, TLC

\* ------------------------------------------------------------- bounds
\* Runs of client.js per client slot.
MaxCalls == 2

\* Client processes (each with its own connection).
Clients == {"c1", "c2"}

\* ------------------------------------------------------------- values
\* JavaScript null / undefined.
Null == [tag |-> "null"]

\* if (error): every value but null/undefined used here is truthy.
Truthy(v) == v # Null

\* Error objects, by status code.
Err(code) == [code |-> code]

\* The object the GetDog handler passes to its callback (server.js:29).
\* The mutant is the dog of the readme's REST example (age 6).
SpotOlder == [name |-> "Spot", age |-> 6]
Spot == [name |-> "Spot", age |-> 5]

\* message Dog { string name = 1; int32 age = 2; } on the wire: a sequence
\* of <<field number, value>>; proto3 leaves out fields at their default.
SerializeDog(d) ==
    (IF d.name # "" THEN << <<1, d.name>> >> ELSE << >>) \o
    (IF d.age # 0 THEN << <<2, d.age>> >> ELSE << >>)

\* Decoding with `defaults: true`: absent fields get their zero value,
\* unknown field numbers are skipped.
FieldOr(bytes, num, dflt) ==
    IF \E i \in 1..Len(bytes) : bytes[i][1] = num
    THEN bytes[CHOOSE i \in 1..Len(bytes) : bytes[i][1] = num][2]
    ELSE dflt

DeserializeDog(bytes) ==
    [name |-> FieldOr(bytes, 1, ""), age |-> FieldOr(bytes, 2, 0)]

\* message Empty {}: every field of the request body is unknown and skipped.
DeserializeEmpty(bytes) == [tag |-> "empty"]

\* Request bodies a caller may put on the wire ({} is the empty sequence).
Bodies == { << >>, << <<1, "junk">> >> }

\* Method names a caller may ask for; the service declares only GetDog.
Methods == {"GetDog", "GetCat"}

\* ------------------------------------------------------------- state
VARIABLES
    pc,          \* position of server.js
    handlers,    \* method names registered on the server
    bindError,   \* the error the bindAsync callback received
    startCalled, \* server.start() was reached
    serverOut,   \* console output of server.js
    cst,         \* per client: "idle", "pending", "done"
    ncalls,      \* per client: runs of client.js so far
    meth,        \* per client: method of the current call
    body,        \* per client: request body of the current call
    wire,        \* per client: "none", "req", "resp", "lost"
    resp,        \* per client: the response in flight
    invoked,     \* per client: callback invocations by the handler, this call
    got,         \* per client: <<error, dog>> the client callback received
    out          \* per client: console output of client.js, this run

vars == <<pc, handlers, bindError, startCalled, serverOut,
          cst, ncalls, meth, body, wire, resp, invoked, got, out>>

serverVars == <<pc, handlers, bindError, startCalled, serverOut>>
clientVars == <<cst, ncalls, meth, body, got, out>>

\* No response yet: no status, no payload bytes.
NoResp == [err |-> Null, payload |-> << >>, sent |-> FALSE]

Init ==
    /\ pc = "loaded"
    /\ handlers = {}
    /\ bindError = Null
    /\ startCalled = FALSE
    /\ serverOut = << >>
    /\ cst = [c \in Clients |-> "idle"]
    /\ ncalls = [c \in Clients |-> 0]
    /\ meth = [c \in Clients |-> "GetDog"]
    /\ body = [c \in Clients |-> << >>]
    /\ wire = [c \in Clients |-> "none"]
    /\ resp = [c \in Clients |-> NoResp]
    /\ invoked = [c \in Clients |-> 0]
    /\ got = [c \in Clients |-> <<Null, Null>>]
    /\ out = [c \in Clients |-> << >>]

\* ------------------------------------------------------------- server.js
\* const server = new grpc.Server();
NewServer ==
    /\ pc = "loaded"
    /\ pc' = "created"
    /\ UNCHANGED <<handlers, bindError, startCalled, serverOut>>
    /\ UNCHANGED <<clientVars, wire, resp, invoked>>

\* The implementation object given to addService: its keys.
\* The mutant registers the handler under every name.
ImplementedAll == Methods
Implemented == {"GetDog"}

\* server.addService(dogProto.DogService.service, { GetDog: ... });
\* The mutant forgets the registration.
AddServiceNothing ==
    /\ pc = "created"
    /\ pc' = "registered"
    /\ UNCHANGED <<handlers, bindError, startCalled, serverOut>>
    /\ UNCHANGED <<clientVars, wire, resp, invoked>>
AddService ==
    /\ pc = "created"
    /\ pc' = "registered"
    /\ handlers' = handlers \cup Implemented
    /\ UNCHANGED <<bindError, startCalled, serverOut>>
    /\ UNCHANGED <<clientVars, wire, resp, invoked>>

\* server.bindAsync("127.0.0.1:3500", creds, callback): the call itself.
BindAsync ==
    /\ pc = "registered"
    /\ pc' = "binding"
    /\ UNCHANGED <<handlers, bindError, startCalled, serverOut>>
    /\ UNCHANGED <<clientVars, wire, resp, invoked>>

\* (error, port) => { console.log(...); server.start(); }
\* The callback never looks at `error`.  On an unbound server start()
\* throws; nothing catches it and the process ends.
BindCallback(error) ==
    /\ pc = "binding"
    /\ bindError' = error
    /\ serverOut' = Append(serverOut, "listening on port")
    /\ startCalled' = TRUE
    /\ pc' = IF error = Null THEN "serving" ELSE "aborted"
    /\ UNCHANGED handlers
    /\ UNCHANGED <<clientVars, wire, resp, invoked>>

\* GetDog: (input, callback) => { try { callback(null, Spot) }
\*                                catch (error) { callback(error, null) } }
\* throws1 / throws2: whether the first / second invocation of the callback
\* throws.  The result: how often the callback was invoked, the completion
\* the call got from an invocation that returned, and whether an exception
\* left the handler.
GetDog(input, throws1, throws2) ==
    IF ~throws1
    THEN [invoked |-> 1, err |-> Null, dog |-> Spot, sent |-> TRUE,
          escaped |-> FALSE]
    ELSE IF ~throws2
    THEN [invoked |-> 2, err |-> Err("CALLBACK_THREW"), dog |-> Null,
          sent |-> TRUE, escaped |-> FALSE]
    ELSE [invoked |-> 2, err |-> Null, dog |-> Null, sent |-> FALSE,
          escaped |-> TRUE]

\* The serving server takes the request of client c off the wire and
\* dispatches it by method name.  An unregistered name is answered with
\* UNIMPLEMENTED and no handler runs.  An exception that leaves the handler
\* is either contained by the library (status UNKNOWN) or uncaught, which
\* ends the process; which one depends on the installed library.
Dispatch(c, throws1, throws2, uncaught) ==
    /\ pc = "serving"
    /\ wire[c] = "req"
    /\ IF meth[c] \notin handlers
       THEN /\ resp' = [resp EXCEPT ![c] =
                   [err |-> Err("UNIMPLEMENTED"), payload |-> << >>,
                    sent |-> TRUE]]
            /\ wire' = [wire EXCEPT ![c] = "resp"]
            /\ UNCHANGED <<invoked, pc>>
       ELSE LET r == GetDog(DeserializeEmpty(body[c]), throws1, throws2) IN
            /\ invoked' = [invoked EXCEPT ![c] = r.invoked]
            /\ IF r.sent
               THEN /\ resp' = [resp EXCEPT ![c] =
                           [err |-> r.err,
                            payload |-> IF r.dog = Null THEN << >>
                                        ELSE SerializeDog(r.dog),
                            sent |-> TRUE]]
                    /\ wire' = [wire EXCEPT ![c] = "resp"]
                    /\ UNCHANGED pc
               ELSE IF uncaught
               THEN /\ pc' = "crashed"
                    /\ UNCHANGED <<resp, wire>>
               ELSE /\ resp' = [resp EXCEPT ![c] =
                           [err |-> Err("UNKNOWN"), payload |-> << >>,
                            sent |-> TRUE]]
                    /\ wire' = [wire EXCEPT ![c] = "resp"]
                    /\ UNCHANGED pc
    /\ UNCHANGED <<handlers, bindError, startCalled, serverOut>>
    /\ UNCHANGED clientVars

\* ------------------------------------------------------------- client.js
\* One run of client.js: create the client, client.GetDog({}, callback).
\* No call options are passed, so the call has no deadline.  Other callers
\* of the same server may ask for another method or send another body.
Call(c, m, b) ==
    /\ cst[c] \in {"idle", "done"}
    /\ ncalls[c] < MaxCalls
    /\ ncalls' = [ncalls EXCEPT ![c] = @ + 1]
    /\ cst' = [cst EXCEPT ![c] = "pending"]
    /\ meth' = [meth EXCEPT ![c] = m]
    /\ body' = [body EXCEPT ![c] = b]
    /\ wire' = [wire EXCEPT ![c] = "req"]
    /\ resp' = [resp EXCEPT ![c] = NoResp]
    /\ invoked' = [invoked EXCEPT ![c] = 0]
    /\ got' = [got EXCEPT ![c] = <<Null, Null>>]
    /\ out' = [out EXCEPT ![c] = << >>]
    /\ UNCHANGED serverVars

\* (error, dog) => { if (error) console.log(error) else console.log(dog) }
\* The mutant drops the else: it prints the dog whatever the error.
CallbackNoElse(error, dog) ==
    (IF Truthy(error) THEN <<error>> ELSE << >>) \o <<dog>>
Callback(error, dog) ==
    IF Truthy(error) THEN <<error>> ELSE <<dog>>

\* The library completes the pending call of c with (error, dog).
Complete(c, error, dog) ==
    /\ cst' = [cst EXCEPT ![c] = "done"]
    /\ got' = [got EXCEPT ![c] = <<error, dog>>]
    /\ out' = [out EXCEPT ![c] = @ \o Callback(error, dog)]
    /\ wire' = [wire EXCEPT ![c] = "none"]
    /\ UNCHANGED <<ncalls, meth, body, resp, invoked>>
    /\ UNCHANGED serverVars

\* The response reaches the client: the callback gets the error, or null
\* and the decoded dog.
ReceiveResponse(c) ==
    /\ cst[c] = "pending"
    /\ wire[c] = "resp"
    /\ IF resp[c].err # Null
       THEN Complete(c, resp[c].err, Null)
       ELSE Complete(c, Null, DeserializeDog(resp[c].payload))

\* No server is serving at localhost:3500 (not started yet, aborted or
\* crashed): the call fails with UNAVAILABLE.
Unavailable(c) ==
    /\ cst[c] = "pending"
    /\ wire[c] = "req"
    /\ pc # "serving"
    /\ Complete(c, Err("UNAVAILABLE"), Null)

\* The connection of c breaks (reset, EOF) with the call in flight.
ConnReset(c) ==
    /\ cst[c] = "pending"
    /\ wire[c] \in {"req", "resp"}
    /\ Complete(c, Err("UNAVAILABLE"), Null)

\* The serving peer goes silent (its host or the path to it stops passing
\* packets): the message in flight is never answered and the connection is
\* never closed.
Silence(c) ==
    /\ pc = "serving"
    /\ cst[c] = "pending"
    /\ wire[c] \in {"req", "resp"}
    /\ wire' = [wire EXCEPT ![c] = "lost"]
    /\ UNCHANGED <<resp, invoked>>
    /\ UNCHANGED clientVars
    /\ UNCHANGED serverVars

\* ------------------------------------------------------------- spec
Next ==
    \/ NewServer
    \/ AddService
    \/ BindAsync
    \/ \E error \in {Null, Err("EADDRINUSE")} : BindCallback(error)
    \/ \E c \in Clients, t1, t2, u \in BOOLEAN : Dispatch(c, t1, t2, u)
    \/ \E c \in Clients, m \in Methods, b \in Bodies : Call(c, m, b)
    \/ \E c \in Clients : ReceiveResponse(c)
    \/ \E c \in Clients : Unavailable(c)
    \/ \E c \in Clients : ConnReset(c)
    \/ \E c \in Clients : Silence(c)

Spec == Init /\ [][Next]_vars

\* The event loops run whatever is ready: the script's next statement, a
\* request that arrived at the serving server, a response that arrived at
\* the client, a refused connection.  Failures of the environment
\* (ConnReset, Silence) and further runs of client.js are not owed.
FairSpec ==
    /\ Spec
    /\ WF_vars(NewServer)
    /\ WF_vars(AddService)
    /\ WF_vars(BindAsync)
    /\ WF_vars(\E error \in {Null, Err("EADDRINUSE")} : BindCallback(error))
    /\ \A c \in Clients :
          /\ WF_vars(\E t1, t2, u \in BOOLEAN : Dispatch(c, t1, t2, u))
          /\ WF_vars(ReceiveResponse(c))
          /\ WF_vars(Unavailable(c))

TypeOK ==
    /\ pc \in {"loaded", "created", "registered", "binding", "serving",
               "aborted", "crashed"}
    /\ handlers \subseteq Methods
    /\ startCalled \in BOOLEAN
    /\ \A c \in Clients :
          /\ cst[c] \in {"idle", "pending", "done"}
          /\ ncalls[c] \in 0..MaxCalls
          /\ wire[c] \in {"none", "req", "resp", "lost"}
          /\ invoked[c] \in 0..2

\* ------------------------------------------------------------- claims
\* The call of c ended in a transport error: the connection failed, or the
\* completion callback the transport handed to the handler threw.
TransportError(c) == got[c][1] = Err("UNAVAILABLE") \/ invoked[c] = 2

C2_HandlerErrorKeepsServing ==
    \A c \in Clients :
        invoked[c] = 2
            => /\ pc = "serving"
               /\ resp[c].sent /\ resp[c].err # Null

\* C3: when the bindAsync callback received an error, server.start() was
\* not reached, the server is not serving and no request was dispatched.
C3_BindErrorAborts ==
    bindError # Null
        => /\ ~startCalled
           /\ pc # "serving"
           /\ \A c \in Clients : ~resp[c].sent /\ invoked[c] = 0

\* C4: a run of the client prints nothing while its call is pending and
\* exactly one value once the call completed: the error when the error is
\* non-null, and otherwise the dog, which then has both of its fields.
C4_ExactlyOneBranch ==
    \A c \in Clients :
        /\ cst[c] # "done" => out[c] = << >>
        /\ cst[c] = "done" =>
              /\ Len(out[c]) = 1
              /\ got[c][1] # Null => out[c][1] = got[c][1]
              /\ got[c][1] = Null =>
                    /\ out[c][1] = got[c][2]
                    /\ DOMAIN got[c][2] = {"name", "age"}

\* One completed call printed an error and another printed the dog: both
\* branches were taken, one per call.
C4_Witness ==
    \E c, d \in Clients :
        /\ cst[c] = "done" /\ out[c] = <<Err("UNAVAILABLE")>>
        /\ cst[d] = "done" /\ out[d] = <<[name |-> "Spot", age |-> 5]>>

\* C5: from bindAsync on (and so whenever start() was reached) the
\* registered handlers are exactly {GetDog}, and no step taken from then on
\* changes them.
C5_RegistrationOnlyInSetup ==
    /\ []((pc \in {"binding", "serving", "aborted", "crashed"} \/ startCalled)
             => (handlers = {"GetDog"}))
    /\ [][(pc \in {"binding", "serving", "aborted", "crashed"})
             => (handlers' = handlers)]_vars

\* The serving server has answered a request through the GetDog handler.
C5_Witness ==
    /\ pc = "serving" /\ startCalled
    /\ \E c \in Clients : invoked[c] = 1 /\ wire[c] = "resp"

\* C6: the step that answers a request for a method other than GetDog
\* answers it with UNIMPLEMENTED, invokes no handler callback and leaves the
\* server as it was (serving, with the same handlers).
C6_UnknownMethod ==
    [][\A c \in Clients :
          (wire[c] = "req" /\ meth[c] # "GetDog" /\ wire'[c] = "resp")
              => (/\ resp'[c].err = Err("UNIMPLEMENTED")
                  /\ invoked' = invoked
                  /\ pc = "serving" /\ pc' = "serving"
                  /\ handlers' = handlers)]_vars

\* A caller was told UNIMPLEMENTED for GetCat and the server is serving,
\* with the GetDog call of another client answered by the handler.
C6_Witness ==
    \E c, d \in Clients :
        /\ cst[c] = "done" /\ meth[c] = "GetCat"
        /\ out[c] = <<Err("UNIMPLEMENTED")>>
        /\ pc = "serving"
        /\ d # c /\ meth[d] = "GetDog" /\ wire[d] = "resp" /\ invoked[d] = 1

\* C7: every pending GetDog call is eventually completed (its callback is
\* invoked with the response or an error).
C7_CallEventuallyCompletes ==
    \A c \in Clients :
        (cst[c] = "pending" /\ meth[c] = "GetDog") ~> (cst[c] = "done")

\* C8: a step in which the handler runs for the call of c leaves the server
\* and the call of every other client as they were.
C8_HandlerIsolation ==
    [][\A c \in Clients :
          (invoked'[c] > invoked[c])
              => (/\ pc' = pc /\ handlers' = handlers
                  /\ \A d \in Clients \ {c} :
                        (/\ wire'[d] = wire[d] /\ resp'[d] = resp[d]
                         /\ invoked'[d] = invoked[d] /\ cst'[d] = cst[d]
                         /\ got'[d] = got[d] /\ out'[d] = out[d]))]_vars

\* C10: the handler invokes the completion callback of a call at most once
\* (and once when it ran).
C10_CallbackExactlyOnce ==
    \A c \in Clients : invoked[c] <= 1

====
